---- MODULE Spec2Model ----
(***************************************************************************)
(* Docling PDF conversion service: the status hub (ConnectionManager and   *)
(* ConversionStatusTracker, websocket_handler.py), the HTTP and WebSocket  *)
(* endpoints (api.py) and the conversion orchestrator (docling_service.py) *)
(* as one state machine over a single asyncio event loop.                  *)
(*                                                                         *)
(* A coroutine owns the loop thread from the moment it is resumed until    *)
(* its next suspension; `running` names the HTTP request that owns it.     *)
(* Every `await websocket.send_text(..)` of a broadcast is a suspension    *)
(* point.  The converter call is synchronous, so the request keeps the     *)
(* loop for the whole call.                                                *)
(***************************************************************************)
EXTENDS Integers, Sequences, FiniteSets, TLC

\* ---- bounds of the model ------------------------------------------------
NumClients == 2
NumSockets == 2
NumDocs == 2
NumJobs == 2
TickSeconds == 100
MaxTicks == 2
MaxOps == 5

\* ---- program constants --------------------------------------------------
max_processing_time == 120

Clients == 1..NumClients
Sockets == 1..NumSockets
Docs == 1..NumDocs
Jobs == 1..NumJobs

VARIABLES
    active_connections,    \* ConnectionManager.active_connections: client id -> socket
    document_subscribers,  \* ConnectionManager.document_subscribers: doc -> set of client ids
    conversion_status,     \* ConversionStatusTracker.conversion_status: doc -> status_update
    sockets,               \* every WebSocket object: its client id and transport state
    received,              \* per socket, the status updates written to it by send_text
    emitted,               \* every status_update built by update_status, in call order
    jobs,                  \* the HTTP conversion requests and where their handlers stand
    running,               \* {j} while request j's coroutine owns the loop thread, else {}
    waiting,               \* documents with a status request that arrived while the loop was held
    got,                   \* the last value returned by get_status
    ops,                   \* WebSocket endpoint events handled so far
    audience,              \* per emitted update, the sockets subscribed and connected ever since its publish began
    unsubscribed,          \* pairs <<c, d>> whose latest subscription operation is unsubscribe
    upload_dir,            \* what UPLOAD_DIR / <file name> holds: absent, empty, or the bytes of an upload
    call                   \* a direct call of one of the service's functions: its argument and its return value

vars == <<active_connections, document_subscribers, conversion_status, sockets,
          received, emitted, jobs, running, waiting, got, ops, audience, unsubscribed,
          upload_dir, call>>

hubvars == <<active_connections, document_subscribers, conversion_status>>

\* ---- small helpers ------------------------------------------------------
Min(S) == CHOOSE x \in S : \A y \in S : x <= y

Restrict(f, S) == [x \in (DOMAIN f) \cap S |-> f[x]]

Put(f, k, v) == [x \in (DOMAIN f) \cup {k} |-> IF x = k THEN v ELSE f[x]]

Last(s) == s[Len(s)]

\* ---- ConnectionManager --------------------------------------------------
\* connect: self.active_connections[client_id] = websocket
connect(ac, w, c) == Put(ac, c, w)

\* disconnect: only when the client id is in the table, delete it and remove
\* the id from every subscriber set (the sets stay in the dict, even empty).
disconnect(hub, c) ==
    IF c \in DOMAIN hub.ac
    THEN [ac |-> Restrict(hub.ac, (DOMAIN hub.ac) \ {c}),
          subs |-> [d \in DOMAIN hub.subs |-> hub.subs[d] \ {c}]]
    ELSE hub

\* subscribe_to_document: create the set when the key is missing, then add.
subscribe_to_document(subs, c, d) ==
    IF d \in DOMAIN subs THEN Put(subs, d, subs[d] \cup {c}) ELSE Put(subs, d, {c})

unsubscribe_without_discard(subs, c, d) ==
    IF d \in DOMAIN subs /\ subs[d] = {}
    THEN Restrict(subs, (DOMAIN subs) \ {d})
    ELSE subs

\* unsubscribe_from_document: discard, and delete the key when the set is empty.
unsubscribe_from_document(subs, c, d) ==
    IF d \in DOMAIN subs
    THEN IF subs[d] \ {c} = {}
         THEN Restrict(subs, (DOMAIN subs) \ {d})
         ELSE Put(subs, d, subs[d] \ {c})
    ELSE subs

\* ---- ConversionStatusTracker --------------------------------------------
\* the status_update dict of update_status; the timestamp is the logical
\* time of the call (the number of updates built so far, this one included).
StatusUpdate(d, status, progress, ts) ==
    [documentId |-> d, status |-> status, progress |-> progress, timestamp |-> ts]

\* get_status: the stored update, or a synthesized 'unknown' one.
get_status(cs, d, now) ==
    IF d \in DOMAIN cs THEN cs[d] ELSE StatusUpdate(d, "unknown", 0, now)

\* ---- requests and their files --------------------------------------------
\* What the endpoints and the orchestrator read of a source file: whether the
\* path exists, whether its suffix is .pdf, whether pypdf reports it
\* encrypted, and whether DocumentConverter.convert returns or raises on it.
\* EncryptedText is an encrypted PDF under a name that does not end in .pdf.
MissingFile == [exists |-> FALSE, pdf |-> TRUE, encrypted |-> FALSE, converts |-> FALSE]
TextFile == [exists |-> TRUE, pdf |-> FALSE, encrypted |-> FALSE, converts |-> FALSE]
EncryptedText == [exists |-> TRUE, pdf |-> FALSE, encrypted |-> TRUE, converts |-> FALSE]
EncryptedPdf == [exists |-> TRUE, pdf |-> TRUE, encrypted |-> TRUE, converts |-> FALSE]
BrokenPdf == [exists |-> TRUE, pdf |-> TRUE, encrypted |-> FALSE, converts |-> FALSE]
GoodPdf == [exists |-> TRUE, pdf |-> TRUE, encrypted |-> FALSE, converts |-> TRUE]

Files == {MissingFile, TextFile, EncryptedText, EncryptedPdf, BrokenPdf, GoodPdf}

NoFile == [exists |-> FALSE, pdf |-> FALSE, encrypted |-> FALSE, converts |-> FALSE]

\* the iterator of `for client_id in self.document_subscribers[document_id]`:
\* the set's size when the loop began, the slot of the last client yielded,
\* the disconnected_clients list, and whether the set object it walks has
\* been dropped from the dict (unsubscribe deleted the key after emptying it).
NoIter == [startSize |-> 0, pos |-> 0, failed |-> <<>>, orphan |-> FALSE]

NoResult == [status |-> "none", errors |-> <<>>, processingTime |-> 0]

NoResponse == [http |-> 0, status |-> "none", errors |-> <<>>]

IdleJob ==
    [endpoint |-> "none", documentId |-> 1, file |-> NoFile, pc |-> "idle",
     phase |-> "none", it |-> NoIter, elapsed |-> 0, result |-> NoResult,
     response |-> NoResponse, accepted |-> FALSE,
     upload |-> NoFile, handle |-> "none", flushed |-> FALSE]

\* ConversionResponse(...status="failed", errors=[msg]) returned with HTTP 200
FailedBody(msg) == [http |-> 200, status |-> "failed", errors |-> <<msg>>]

ResultBodyOrHttpError(result) ==
    IF result.status = "failed"
    THEN [http |-> 500, status |-> "none", errors |-> <<>>]
    ELSE [http |-> 200, status |-> result.status, errors |-> result.errors]

\* ConversionResponse(**result) returned with HTTP 200
ResultBody(result) == [http |-> 200, status |-> result.status, errors |-> result.errors]

\* raise HTTPException(status_code=code) leaving the handler
HttpError(code) == [http |-> code, status |-> "none", errors |-> <<>>]

\* an exception that leaves a method called directly, with no handler
RaisedError(msg) == [http |-> 0, status |-> "raised", errors |-> <<msg>>]

\* the probe switched off: no file is reported encrypted
check_pdf_encryption_off(f) == FALSE

\* DoclingService.check_pdf_encryption: pdf_reader.is_encrypted of the file's
\* content whatever its name, False on any error (a missing file)
check_pdf_encryption(f) == f.exists /\ f.encrypted

Hub == [ac |-> active_connections, subs |-> document_subscribers]

\* no function is being called directly
NoCall == [fn |-> "none", done |-> FALSE]

\* the service after construction, before any request
InitService ==
    /\ active_connections = <<>>
    /\ document_subscribers = <<>>
    /\ conversion_status = <<>>
    /\ sockets = [w \in Sockets |-> [client |-> 1, state |-> "idle"]]
    /\ received = [w \in Sockets |-> <<>>]
    /\ emitted = <<>>
    /\ jobs = [j \in Jobs |-> IdleJob]
    /\ running = {}
    /\ waiting = {}
    /\ got = StatusUpdate(1, "none", 0, 0)
    /\ unsubscribed = {}
    /\ ops = 0
    /\ audience = <<>>
    /\ upload_dir = "absent"

Init ==
    /\ InitService
    /\ call = NoCall

\* the update the broadcast of job j is sending: the last one job j built
LatestIndex(j) ==
    LET idx == {i \in 1..Len(emitted) : emitted[i].by = j}
    IN  CHOOSE i \in idx : \A k \in idx : k <= i

CurrentUpdate(j) == emitted[LatestIndex(j)].update

\* publish i is still inside its `for` loop
InProgress(i) ==
    /\ i = LatestIndex(emitted[i].by)
    /\ jobs[emitted[i].by].pc \in {"bcast_next", "sending"}

\* bookkeeping for the properties: a socket stays in a publish's audience
\* while it is open, is its client's entry in the connection table and its
\* client is in the document's subscriber set
Audit ==
    audience' = [i \in 1..Len(emitted') |->
        LET d == emitted'[i].update.documentId
            eligible == {w \in Sockets :
                           /\ sockets'[w].state = "open"
                           /\ sockets'[w].client \in DOMAIN active_connections'
                           /\ active_connections'[sockets'[w].client] = w
                           /\ d \in DOMAIN document_subscribers'
                           /\ sockets'[w].client \in document_subscribers'[d]}
        IN  IF i > Len(emitted) THEN eligible
            ELSE IF InProgress(i) THEN audience[i] \cap eligible
            ELSE audience[i]]

\* ---- WebSocket endpoint (api.websocket_endpoint) -------------------------
\* await manager.connect(websocket, client_id)
\* WebSocket objects are created in the order of their numbers.
WsConnect(w, c) ==
    /\ running = {}
    /\ ops < MaxOps
    /\ ops' = ops + 1
    /\ sockets[w].state = "idle"
    /\ \A v \in Sockets : v < w => sockets[v].state # "idle"
    /\ sockets' = [sockets EXCEPT ![w] = [client |-> c, state |-> "open"]]
    /\ active_connections' = connect(active_connections, w, c)
    /\ UNCHANGED <<call, document_subscribers, conversion_status, received, emitted,
                   jobs, running, waiting, got, unsubscribed, upload_dir>>
    /\ Audit

\* {"action": "subscribe", "documentId": d}
WsSubscribe(w, d) ==
    /\ running = {}
    /\ ops < MaxOps
    /\ ops' = ops + 1
    /\ sockets[w].state = "open"
    /\ document_subscribers' =
           subscribe_to_document(document_subscribers, sockets[w].client, d)
    /\ unsubscribed' = unsubscribed \ {<<sockets[w].client, d>>}
    /\ UNCHANGED <<call, active_connections, conversion_status, sockets, received,
                   emitted, jobs, running, waiting, got, upload_dir>>
    /\ Audit

\* a broadcast of job j is walking document d's subscriber set
Iterating(j, d) ==
    /\ jobs[j].pc \in {"sending", "bcast_next"}
    /\ jobs[j].documentId = d

\* {"action": "unsubscribe", "documentId": d}; when the key is deleted the set
\* object a suspended broadcast still walks is the emptied, dropped one.
WsUnsubscribe(w, d) ==
    /\ running = {}
    /\ ops < MaxOps
    /\ ops' = ops + 1
    /\ sockets[w].state = "open"
    /\ document_subscribers' =
           unsubscribe_from_document(document_subscribers, sockets[w].client, d)
    /\ unsubscribed' = unsubscribed \cup {<<sockets[w].client, d>>}
    /\ jobs' = [j \in Jobs |->
                  IF /\ Iterating(j, d)
                     /\ d \in DOMAIN document_subscribers
                     /\ d \notin DOMAIN document_subscribers'
                  THEN [jobs[j] EXCEPT !.it.orphan = TRUE]
                  ELSE jobs[j]]
    /\ UNCHANGED <<call, active_connections, conversion_status, sockets, received,
                   emitted, running, waiting, got, upload_dir>>
    /\ Audit

\* {"action": "get_status", "documentId": d}: the reply goes to the asking socket
WsGetStatus(w, d) ==
    /\ running = {}
    /\ sockets[w].state = "open"
    /\ got' = get_status(conversion_status, d, Len(emitted))
    /\ UNCHANGED <<call, ops, active_connections, document_subscribers, conversion_status,
                   sockets, received, emitted, jobs, running, waiting, unsubscribed, upload_dir>>
    /\ Audit

\* the peer goes away: from now on send_text on this socket raises, and the
\* handler's next receive_json raises WebSocketDisconnect
WsBreak(w) ==
    /\ running = {}
    /\ ops < MaxOps
    /\ ops' = ops + 1
    /\ sockets[w].state = "open"
    /\ sockets' = [sockets EXCEPT ![w].state = "broken"]
    /\ UNCHANGED <<call, active_connections, document_subscribers, conversion_status,
                   received, emitted, jobs, running, waiting, got, unsubscribed, upload_dir>>
    /\ Audit

\* except WebSocketDisconnect / except Exception: manager.disconnect(client_id)
WsClose(w) ==
    /\ running = {}
    /\ ops < MaxOps
    /\ ops' = ops + 1
    /\ sockets[w].state \in {"open", "broken"}
    /\ sockets' = [sockets EXCEPT ![w].state = "closed"]
    /\ LET h == disconnect(Hub, sockets[w].client) IN
         /\ active_connections' = h.ac
         /\ document_subscribers' = h.subs
    /\ UNCHANGED <<call, conversion_status, received, emitted, jobs, running, waiting,
                   got, unsubscribed, upload_dir>>
    /\ Audit

\* GET /api/documents/status/{document_id}
GetConversionStatus(d) ==
    /\ running = {}
    /\ got' = get_status(conversion_status, d, Len(emitted))
    /\ waiting' = waiting \ {d}
    /\ UNCHANGED <<call, ops, active_connections, document_subscribers, conversion_status,
                   sockets, received, emitted, jobs, running, unsubscribed, upload_dir>>
    /\ Audit

\* the loop gets to a status request that arrived while it was held
ServeStatusRequest(d) ==
    /\ d \in waiting
    /\ GetConversionStatus(d)

\* ---- update_status and the broadcast loop --------------------------------
\* update_status up to the broadcast's `for`: build the status_update, store
\* it as the document's status, and either return at once (no key for the
\* document) or create the set iterator.
\* history: another request for document d is in flight when job j publishes
SharesDocument(j, d) ==
    \E k \in Jobs \ {j} :
        jobs[k].pc \notin {"idle", "done"} /\ jobs[k].documentId = d

StoreStatusIfAbsent(cs, d, u) == IF d \in DOMAIN cs THEN cs ELSE Put(cs, d, u)

\* self.conversion_status[document_id] = status_update
StoreStatus(cs, d, u) == Put(cs, d, u)

UpdateStatus(j, job, status, progress, phase) ==
    LET d == job.documentId
        u == StatusUpdate(d, status, progress, Len(emitted) + 1)
    IN  /\ emitted' = Append(emitted,
               [update |-> u, by |-> j, overlap |-> SharesDocument(j, d)])
        /\ conversion_status' = StoreStatus(conversion_status, d, u)
        /\ jobs' = [jobs EXCEPT ![j] =
               IF d \in DOMAIN document_subscribers
               THEN [job EXCEPT !.phase = phase, !.pc = "bcast_next",
                         !.it = [startSize |-> Cardinality(document_subscribers[d]),
                                 pos |-> 0, failed |-> <<>>, orphan |-> FALSE]]
               ELSE [job EXCEPT !.phase = phase, !.pc = "bcast_done", !.it = NoIter]]
        /\ running' = {j}

\* the set object the iterator walks: the document's live set, or the emptied
\* object that unsubscribe dropped from the dict
IterMembers(subs, d, it) == IF it.orphan \/ d \notin DOMAIN subs THEN {} ELSE subs[d]

\* next() on a set iterator: RuntimeError when the set's size differs from
\* its size at the start of the loop, else the next occupied slot after the
\* last one yielded, else StopIteration.  Clients sit in slot order of their
\* ids; within the bounds the table is never resized.
SetIterNext(subs, d, it) ==
    LET members == IterMembers(subs, d, it)
        ahead == {c \in members : c > it.pos}
    IN  IF Cardinality(members) # it.startSize THEN [kind |-> "raise", client |-> 0]
        ELSE IF ahead = {} THEN [kind |-> "stop", client |-> 0]
        ELSE [kind |-> "yield", client |-> Min(ahead)]

\* one turn of the `for` loop, entered either in the same loop turn as the
\* previous step or on resumption from a suspended send_text
BroadcastStep(j) ==
    /\ \/ running = {j} /\ jobs[j].pc = "bcast_next"
       \/ running = {} /\ jobs[j].pc = "sending"
    /\ LET job == jobs[j]
           n == SetIterNext(document_subscribers, job.documentId, job.it)
           c == n.client
       IN  \/ /\ n.kind = "raise"
              /\ jobs' = [jobs EXCEPT ![j].pc = "raised"]
              /\ running' = {j}
              /\ UNCHANGED received
           \/ /\ n.kind = "stop"
              /\ jobs' = [jobs EXCEPT ![j].pc = "prune"]
              /\ running' = {j}
              /\ UNCHANGED received
           \/ /\ n.kind = "yield"
              /\ c \notin DOMAIN active_connections
              /\ jobs' = [jobs EXCEPT ![j].pc = "bcast_next", ![j].it.pos = c]
              /\ running' = {j}
              /\ UNCHANGED received
           \/ /\ n.kind = "yield"
              /\ c \in DOMAIN active_connections
              /\ sockets[active_connections[c]].state # "open"
              /\ jobs' = [jobs EXCEPT ![j].pc = "bcast_next", ![j].it.pos = c,
                                      ![j].it.failed = Append(@, c)]
              /\ running' = {j}
              /\ UNCHANGED received
           \/ /\ n.kind = "yield"
              /\ c \in DOMAIN active_connections
              /\ sockets[active_connections[c]].state = "open"
              /\ received' = [received EXCEPT ![active_connections[c]] =
                                  Append(@, CurrentUpdate(j))]
              /\ jobs' = [jobs EXCEPT ![j].pc = "sending", ![j].it.pos = c]
              /\ running' = {}
    /\ UNCHANGED <<call, ops, active_connections, document_subscribers, conversion_status,
                   sockets, emitted, waiting, got, unsubscribed, upload_dir>>
    /\ Audit

RECURSIVE DisconnectAll(_, _)
\* for client_id in disconnected_clients: self.disconnect(client_id)
DisconnectAll(hub, failed) ==
    IF failed = <<>> THEN hub
    ELSE DisconnectAll(disconnect(hub, Head(failed)), Tail(failed))

BroadcastPrune(j) ==
    /\ running = {j}
    /\ jobs[j].pc = "prune"
    /\ LET h == DisconnectAll(Hub, jobs[j].it.failed) IN
         /\ active_connections' = h.ac
         /\ document_subscribers' = h.subs
    /\ jobs' = [jobs EXCEPT ![j].pc = "bcast_done"]
    /\ UNCHANGED <<call, ops, conversion_status, sockets, received, emitted, running,
                   waiting, got, unsubscribed, upload_dir>>
    /\ Audit

\* ---- DoclingService.convert_pdf_to_markdown -------------------------------
FailedResult(msg) == [status |-> "failed", errors |-> <<msg>>, processingTime |-> 0]

\* convert_pdf_to_markdown up to self.converter.convert(..): a missing path
\* or a suffix other than .pdf raises and is turned into a failed result;
\* otherwise the converter is called, synchronously, on the loop thread.
EnterConversion(job) ==
    IF ~job.file.exists
    THEN [job EXCEPT !.pc = "result", !.result = FailedResult("PDF file not found")]
    ELSE IF ~job.file.pdf
    THEN [job EXCEPT !.pc = "result",
                     !.result = FailedResult("Conversion error: File must be a PDF")]
    ELSE [job EXCEPT !.pc = "converting", !.elapsed = 0]

\* wall-clock time passes inside self.converter.convert(..)
ConverterTick(j) ==
    /\ running = {j}
    /\ jobs[j].pc = "converting"
    /\ jobs[j].elapsed + TickSeconds <= MaxTicks * TickSeconds
    /\ jobs' = [jobs EXCEPT ![j].elapsed = @ + TickSeconds]
    /\ UNCHANGED <<call, ops, active_connections, document_subscribers, conversion_status,
                   sockets, received, emitted, running, waiting, got, unsubscribed, upload_dir>>
    /\ Audit

\* the class of the exception a stage raises, as the except clauses tell
\* them apart: FileNotFoundError (the source vanished during the conversion,
\* or a stage opens a missing file) or any other Exception
ErrorClasses == {"FileNotFoundError", "Exception"}

\* the result dict after the converter returned or raised: `except
\* FileNotFoundError` records the message as it is, `except Exception`
\* puts 'Conversion error: ' in front
ConversionResult(job, error) ==
    IF job.file.converts
    THEN [status |-> "success", errors |-> <<>>, processingTime |-> job.elapsed]
    ELSE IF error = "FileNotFoundError" THEN FailedResult("converter raised")
    ELSE FailedResult("Conversion error: converter raised")

\* self.converter.convert(..) returns or raises, whenever it does
ConverterReturns(j) ==
    /\ running = {j}
    /\ jobs[j].pc = "converting"
    /\ \E error \in (IF jobs[j].file.converts THEN {"none"} ELSE ErrorClasses) :
          jobs' = [jobs EXCEPT ![j].pc = "result",
                               ![j].result = ConversionResult(jobs[j], error)]
    /\ UNCHANGED <<call, ops, active_connections, document_subscribers, conversion_status,
                   sockets, received, emitted, running, waiting, got, unsubscribed, upload_dir>>
    /\ Audit

\* a GET /api/documents/status request reaches the server while the loop
\* thread is inside the converter call
StatusRequestArrives(d) ==
    /\ \E j \in running : jobs[j].pc = "converting"
    /\ d \notin waiting
    /\ waiting' = waiting \cup {d}
    /\ UNCHANGED <<call, ops, active_connections, document_subscribers, conversion_status,
                   sockets, received, emitted, jobs, running, got, unsubscribed, upload_dir>>
    /\ Audit

\* ---- POST /api/documents/convert (api.convert_pdf) -----------------------
\* requests are numbered in the order of their arrival
ConvertRequest(j, d, f) ==
    /\ running = {}
    /\ jobs[j].pc = "idle"
    /\ \A i \in Jobs : i < j => jobs[i].pc # "idle"
    /\ LET job == [IdleJob EXCEPT !.endpoint = "convert", !.documentId = d, !.file = f]
       IN  \/ /\ ~f.exists
              /\ jobs' = [jobs EXCEPT ![j] =
                     [job EXCEPT !.pc = "done",
                                 !.response = FailedBody("404: File not found")]]
              /\ UNCHANGED <<conversion_status, emitted, running>>
           \/ /\ f.exists
              /\ check_pdf_encryption(f)
              /\ jobs' = [jobs EXCEPT ![j] =
                     [job EXCEPT !.pc = "done",
                                 !.response = FailedBody("PDF_ENCRYPTED")]]
              /\ UNCHANGED <<conversion_status, emitted, running>>
           \/ /\ f.exists
              /\ ~check_pdf_encryption(f)
              /\ UpdateStatus(j, [job EXCEPT !.accepted = TRUE], "processing", 0, "start")
    /\ UNCHANGED <<call, ops, active_connections, document_subscribers, sockets, received,
                   waiting, got, unsubscribed, upload_dir>>
    /\ Audit

\* start_conversion returned: call convert_pdf_to_markdown
StartConversionReturned(j) ==
    /\ running = {j}
    /\ jobs[j].pc = "bcast_done"
    /\ jobs[j].phase = "start"
    /\ jobs' = [jobs EXCEPT ![j] = EnterConversion(jobs[j])]
    /\ UNCHANGED <<call, ops, active_connections, document_subscribers, conversion_status,
                   sockets, received, emitted, running, waiting, got, unsubscribed, upload_dir>>
    /\ Audit

\* convert_pdf_to_markdown returned its result dict
ConversionReturned(j) ==
    /\ running = {j}
    /\ jobs[j].pc = "result"
    /\ \/ /\ jobs[j].endpoint = "convert"
          /\ jobs[j].result.status = "success"
          /\ UpdateStatus(j, jobs[j], "completed", 100, "final")
       \/ /\ jobs[j].endpoint = "convert"
          /\ jobs[j].result.status = "failed"
          /\ UpdateStatus(j, jobs[j], "failed", 0, "final")
       \/ /\ jobs[j].endpoint = "upload"
          /\ jobs' = [jobs EXCEPT ![j].pc = "done",
                                  ![j].response = ResultBody(jobs[j].result)]
          /\ running' = {}
          /\ UNCHANGED <<conversion_status, emitted>>
    /\ UNCHANGED <<call, ops, active_connections, document_subscribers, sockets, received,
                   waiting, got, unsubscribed, upload_dir>>
    /\ Audit

\* complete_conversion / fail_conversion returned: return ConversionResponse(**result)
TerminalBroadcastReturned(j) ==
    /\ running = {j}
    /\ jobs[j].pc = "bcast_done"
    /\ jobs[j].phase = "final"
    /\ jobs' = [jobs EXCEPT ![j].pc = "done", ![j].response = ResultBody(jobs[j].result)]
    /\ running' = {}
    /\ UNCHANGED <<call, ops, active_connections, document_subscribers, conversion_status,
                   sockets, received, emitted, waiting, got, unsubscribed, upload_dir>>
    /\ Audit

\* the RuntimeError of the set iterator leaves update_status: convert_pdf's
\* `except Exception` catches it, a method called directly lets it through
BroadcastRaised(j) ==
    /\ running = {j}
    /\ jobs[j].pc = "raised"
    /\ jobs' = [jobs EXCEPT ![j].pc = "done",
                            ![j].response =
                                IF jobs[j].endpoint = "convert"
                                THEN FailedBody("Set changed size during iteration")
                                ELSE RaisedError("Set changed size during iteration")]
    /\ running' = {}
    /\ UNCHANGED <<call, ops, active_connections, document_subscribers, conversion_status,
                   sockets, received, emitted, waiting, got, unsubscribed, upload_dir>>
    /\ Audit

\* ---- POST /api/documents/upload-convert (api.upload_and_convert) ---------
\* Every upload named *.pdf in the model carries the same file name, so all
\* of them write UPLOAD_DIR / file.filename, one shared path.  The handler
\* gives the loop back four times before it looks at the file: aiofiles.open,
\* file.read, f.write and the close of the `async with`.  open, write and
\* close run in a worker thread and act on the file whenever they do, also
\* while the loop thread is held by another request.

\* the uploaded bytes as the path holds them once written
ContentOf(f) ==
    IF f.encrypted THEN "encrypted" ELSE IF f.converts THEN "good" ELSE "broken"

\* what the probe and the converter read at the upload path
FileAt(content) ==
    IF content = "absent" THEN MissingFile
    ELSE IF content = "encrypted" THEN EncryptedPdf
    ELSE IF content = "good" THEN GoodPdf
    ELSE BrokenPdf

\* What the path can hold after the handle of an upload wrote its buffer
\* out.  A handle whose file was removed writes to a file no path names.  On
\* the file as its open left it the bytes are the upload's; on a file that
\* another handle wrote meanwhile they land over those bytes, and the file
\* reads as the one, the other, or neither.
FlushOutcomes(job, content) ==
    IF job.handle # "linked" THEN {content}
    ELSE IF content = "empty" THEN {ContentOf(job.upload)}
    ELSE {ContentOf(job.upload), content, "broken"}

\* A worker thread changes the file at the upload path to `content` while
\* the converter of upload k is reading that path: the converter has read
\* the file before the change, reads it after, or reads a torn file.
ConverterSees(k, content) == {jobs[k].file, FileAt(content), BrokenPdf}

\* the check of the file name, then the handler waits for aiofiles.open
UploadRequest(j, d, f) ==
    /\ running = {}
    /\ jobs[j].pc = "idle"
    /\ \A i \in Jobs : i < j => jobs[i].pc # "idle"
    /\ f.exists
    /\ LET job == [IdleJob EXCEPT !.endpoint = "upload", !.documentId = d,
                                  !.file = f, !.upload = f]
       IN  \/ /\ ~f.pdf
              /\ jobs' = [jobs EXCEPT ![j] =
                     [job EXCEPT !.pc = "done", !.response = HttpError(500)]]
           \/ /\ f.pdf
              /\ jobs' = [jobs EXCEPT ![j] = [job EXCEPT !.pc = "open"]]
    /\ UNCHANGED <<call, ops, active_connections, document_subscribers, conversion_status,
                   sockets, received, emitted, running, waiting, got, unsubscribed,
                   upload_dir>>
    /\ Audit

\* the worker thread acts on the file: open(upload_path, 'wb') creates or
\* truncates it, f.write(content) fills the buffer and may write it out,
\* close writes out what the buffer still holds
UploadFileOp(j) ==
    /\ jobs[j].pc \in {"open", "write", "close"}
    /\ \E flush \in (IF jobs[j].pc = "open" \/ jobs[j].flushed THEN {FALSE}
                     ELSE IF jobs[j].pc = "close" THEN {TRUE}
                     ELSE BOOLEAN) :
       \E content \in (IF jobs[j].pc = "open" THEN {"empty"}
                       ELSE IF flush THEN FlushOutcomes(jobs[j], upload_dir)
                       ELSE {upload_dir}) :
         LET reading == {k \in Jobs \ {j} :
                           /\ jobs[k].endpoint = "upload"
                           /\ jobs[k].pc = "converting"
                           /\ content # upload_dir}
         IN  /\ upload_dir' = content
             /\ \E seen \in (IF reading = {} THEN {NoFile}
                              ELSE ConverterSees(CHOOSE k \in reading : TRUE, content)) :
                   jobs' = [k \in Jobs |->
                       IF k = j
                       THEN [jobs[j] EXCEPT
                               !.pc = IF jobs[j].pc = "open" THEN "open_done"
                                      ELSE IF jobs[j].pc = "write" THEN "write_done"
                                      ELSE "close_done",
                               !.handle = IF jobs[j].pc = "open" THEN "linked"
                                          ELSE IF jobs[j].pc = "close" THEN "none"
                                          ELSE @,
                               !.flushed = jobs[j].pc # "open" /\ (@ \/ flush)]
                       ELSE IF k \in reading THEN [jobs[k] EXCEPT !.file = seen]
                       ELSE jobs[k]]
    /\ UNCHANGED <<call, ops, active_connections, document_subscribers, conversion_status,
                   sockets, received, emitted, running, waiting, got, unsubscribed>>
    /\ Audit

\* the loop resumes the handler after an await and it reaches the next one:
\* after aiofiles.open the read of the upload, after the read f.write,
\* after f.write the close
UploadResumes(j) ==
    /\ running = {}
    /\ jobs[j].pc \in {"open_done", "read", "write_done"}
    /\ jobs' = [jobs EXCEPT ![j].pc = IF jobs[j].pc = "open_done" THEN "read"
                                      ELSE IF jobs[j].pc = "read" THEN "write"
                                      ELSE "close"]
    /\ UNCHANGED <<call, ops, active_connections, document_subscribers, conversion_status,
                   sockets, received, emitted, running, waiting, got, unsubscribed,
                   upload_dir>>
    /\ Audit

\* the file is closed: check_pdf_encryption(upload_path) on what the path
\* holds now; an encrypted file is removed and answered with the failed
\* body, any other goes to convert_pdf_to_markdown in the same loop turn
UploadProbe(j) ==
    /\ running = {}
    /\ jobs[j].pc = "close_done"
    /\ LET f == FileAt(upload_dir)
           job == [jobs[j] EXCEPT !.file = f]
       IN  \/ /\ check_pdf_encryption(f)
              /\ upload_dir' = "absent"
              /\ jobs' = [k \in Jobs |->
                    IF k = j
                    THEN [job EXCEPT !.pc = "done",
                                     !.response = FailedBody("PDF_ENCRYPTED")]
                    ELSE [jobs[k] EXCEPT !.handle =
                              IF @ = "linked" THEN "orphan" ELSE @]]
              /\ UNCHANGED running
           \/ /\ ~check_pdf_encryption(f)
              /\ jobs' = [jobs EXCEPT ![j] =
                     EnterConversion([job EXCEPT !.accepted = TRUE])]
              /\ running' = {j}
              /\ UNCHANGED upload_dir
    /\ UNCHANGED <<call, ops, active_connections, document_subscribers, conversion_status,
                   sockets, received, emitted, waiting, got, unsubscribed>>
    /\ Audit

\* ---- the hub's methods called directly -------------------------------------
\* update_progress and send_personal_message have no caller in the service;
\* they are public methods of the tracker and of the manager.
MaxProgressPages == 2

\* int((current_page / total_pages) * 100); the float product is the exact
\* quotient rounded down for the page numbers of the model
ProgressOf(current_page, total_pages) == (current_page * 100) \div total_pages

\* ConversionStatusTracker.update_progress(document_id, current_page,
\* total_pages): the division raises for total_pages = 0, before anything
\* is stored; otherwise update_status(document_id, 'processing', progress)
UpdateProgress(j, d, current_page, total_pages) ==
    /\ running = {}
    /\ jobs[j].pc = "idle"
    /\ \A i \in Jobs : i < j => jobs[i].pc # "idle"
    /\ LET job == [IdleJob EXCEPT !.endpoint = "update_progress", !.documentId = d]
       IN  \/ /\ total_pages = 0
              /\ jobs' = [jobs EXCEPT ![j] =
                     [job EXCEPT !.pc = "done",
                                 !.response = RaisedError("division by zero")]]
              /\ UNCHANGED <<conversion_status, emitted, running>>
           \/ /\ total_pages # 0
              /\ UpdateStatus(j, job, "processing",
                              ProgressOf(current_page, total_pages), "progress")
    /\ UNCHANGED <<call, ops, active_connections, document_subscribers, sockets, received,
                   waiting, got, unsubscribed, upload_dir>>
    /\ Audit

\* update_status returned to update_progress, which returns
UpdateProgressReturned(j) ==
    /\ running = {j}
    /\ jobs[j].pc = "bcast_done"
    /\ jobs[j].phase = "progress"
    /\ jobs' = [jobs EXCEPT ![j].pc = "done"]
    /\ running' = {}
    /\ UNCHANGED <<call, ops, active_connections, document_subscribers, conversion_status,
                   sockets, received, emitted, waiting, got, unsubscribed, upload_dir>>
    /\ Audit

\* a text sent with send_personal_message, as the socket records it
PersonalMessage(message) == [type |-> "personal", message |-> message]

PersonalMessages == {"hello"}

\* ConnectionManager.send_personal_message(message, client_id): send_text on
\* the client's socket when the client is in the connection table, whatever
\* it subscribes to; on a socket that is no longer open send_text raises and
\* nothing is written
SendPersonalMessage(message, c) ==
    /\ running = {}
    /\ ops < MaxOps
    /\ ops' = ops + 1
    /\ received' =
           IF c \in DOMAIN active_connections
              /\ sockets[active_connections[c]].state = "open"
           THEN [received EXCEPT ![active_connections[c]] =
                     Append(@, PersonalMessage(message))]
           ELSE received
    /\ UNCHANGED <<call, active_connections, document_subscribers, conversion_status,
                   sockets, emitted, jobs, running, waiting, got, unsubscribed,
                   upload_dir>>
    /\ Audit

\* ---- specifications -----------------------------------------------------
\* The hub under the WebSocket endpoint and one conversion request (two
\* publishes) for a PDF the converter accepts or rejects.
NextHub ==
    \/ \E w \in Sockets, c \in Clients : WsConnect(w, c)
    \/ \E w \in Sockets, d \in Docs : WsSubscribe(w, d)
    \/ \E w \in Sockets, d \in Docs : WsUnsubscribe(w, d)
    \/ \E w \in Sockets : WsBreak(w)
    \/ \E w \in Sockets : WsClose(w)
    \/ \E d \in Docs, f \in {GoodPdf, BrokenPdf} : ConvertRequest(1, d, f)
    \/ BroadcastStep(1)
    \/ BroadcastPrune(1)
    \/ BroadcastRaised(1)
    \/ StartConversionReturned(1)
    \/ ConverterReturns(1)
    \/ ConversionReturned(1)
    \/ TerminalBroadcastReturned(1)

SpecHub == Init /\ [][NextHub]_vars

\* The same with concurrent conversion requests.
NextRequests ==
    \/ \E w \in Sockets, c \in Clients : WsConnect(w, c)
    \/ \E w \in Sockets, d \in Docs : WsSubscribe(w, d)
    \/ \E w \in Sockets, d \in Docs : WsUnsubscribe(w, d)
    \/ \E w \in Sockets : WsBreak(w)
    \/ \E w \in Sockets : WsClose(w)
    \/ \E j \in Jobs, d \in Docs : ConvertRequest(j, d, GoodPdf)
    \/ \E j \in Jobs : BroadcastStep(j)
    \/ \E j \in Jobs : BroadcastPrune(j)
    \/ \E j \in Jobs : BroadcastRaised(j)
    \/ \E j \in Jobs : StartConversionReturned(j)
    \/ \E j \in Jobs : ConverterReturns(j)
    \/ \E j \in Jobs : ConversionReturned(j)
    \/ \E j \in Jobs : TerminalBroadcastReturned(j)

SpecRequests == Init /\ [][NextRequests]_vars

\* Status queries against one conversion request.
NextStatus ==
    \/ \E w \in Sockets, c \in Clients : WsConnect(w, c)
    \/ \E w \in Sockets, d \in Docs : WsSubscribe(w, d)
    \/ \E w \in Sockets, d \in Docs : WsGetStatus(w, d)
    \/ \E d \in Docs : GetConversionStatus(d)
    \/ \E d \in Docs, f \in {GoodPdf, BrokenPdf} : ConvertRequest(1, d, f)
    \/ BroadcastStep(1)
    \/ BroadcastPrune(1)
    \/ BroadcastRaised(1)
    \/ StartConversionReturned(1)
    \/ ConverterReturns(1)
    \/ ConversionReturned(1)
    \/ TerminalBroadcastReturned(1)

SpecStatus == Init /\ [][NextStatus]_vars

\* One request to either conversion endpoint on every kind of file, with
\* subscribers coming and status requests arriving while the converter runs.
Next ==
    \/ \E w \in Sockets, c \in Clients : WsConnect(w, c)
    \/ \E w \in Sockets, d \in Docs : WsSubscribe(w, d)
    \/ \E d \in Docs : ServeStatusRequest(d)
    \/ \E d \in Docs : StatusRequestArrives(d)
    \/ \E d \in Docs, f \in Files : ConvertRequest(1, d, f)
    \/ \E d \in Docs, f \in Files : UploadRequest(1, d, f)
    \/ UploadFileOp(1)
    \/ UploadResumes(1)
    \/ UploadProbe(1)
    \/ BroadcastStep(1)
    \/ BroadcastPrune(1)
    \/ BroadcastRaised(1)
    \/ StartConversionReturned(1)
    \/ ConverterTick(1)
    \/ ConverterReturns(1)
    \/ ConversionReturned(1)
    \/ TerminalBroadcastReturned(1)

Spec == Init /\ [][Next]_vars

\* One request to either conversion endpoint on every kind of file, with
\* subscribers coming, up to the response: the converter call returns in one
\* step and no status request is queued.
NextEndpoints ==
    \/ \E w \in Sockets, c \in Clients : WsConnect(w, c)
    \/ \E w \in Sockets, d \in Docs : WsSubscribe(w, d)
    \/ \E d \in Docs, f \in Files : ConvertRequest(1, d, f)
    \/ \E d \in Docs, f \in Files : UploadRequest(1, d, f)
    \/ UploadFileOp(1)
    \/ UploadResumes(1)
    \/ UploadProbe(1)
    \/ BroadcastStep(1)
    \/ BroadcastPrune(1)
    \/ BroadcastRaised(1)
    \/ StartConversionReturned(1)
    \/ ConverterReturns(1)
    \/ ConversionReturned(1)
    \/ TerminalBroadcastReturned(1)

SpecEndpoints == Init /\ [][NextEndpoints]_vars

\* Uploads of the same file name racing on the shared upload path.
NextUploads ==
    \/ \E j \in Jobs, d \in Docs, f \in Files : UploadRequest(j, d, f)
    \/ \E j \in Jobs : UploadFileOp(j)
    \/ \E j \in Jobs : UploadResumes(j)
    \/ \E j \in Jobs : UploadProbe(j)
    \/ \E j \in Jobs : ConverterReturns(j)
    \/ \E j \in Jobs : ConversionReturned(j)

SpecUploads == Init /\ [][NextUploads]_vars

\* The tracker's update_progress and the manager's send_personal_message
\* called directly, under the WebSocket endpoint.
NextDirect ==
    \/ \E w \in Sockets, c \in Clients : WsConnect(w, c)
    \/ \E w \in Sockets, d \in Docs : WsSubscribe(w, d)
    \/ \E w \in Sockets, d \in Docs : WsUnsubscribe(w, d)
    \/ \E w \in Sockets : WsBreak(w)
    \/ \E w \in Sockets : WsClose(w)
    \/ \E d \in Docs, current_page, total_pages \in 0..MaxProgressPages :
           UpdateProgress(1, d, current_page, total_pages)
    \/ \E m \in PersonalMessages, c \in Clients : SendPersonalMessage(m, c)
    \/ BroadcastStep(1)
    \/ BroadcastPrune(1)
    \/ BroadcastRaised(1)
    \/ UpdateProgressReturned(1)

SpecDirect == Init /\ [][NextDirect]_vars

\* ---- properties ----------------------------------------------------------
Range(q) == {q[i] : i \in 1..Len(q)}

\* the sockets that take client c's messages: the client's entry in the table
Connected(c) == c \in DOMAIN active_connections

\* C1: whenever send_text writes a status update for document D to a socket,
\* that socket is the connection-table entry of a client that is in D's
\* subscriber set at that moment, and the client's latest subscription
\* operation on D is not an unsubscribe.
C1_SentOnlyToCurrentSubscribers ==
    [][\A w \in Sockets :
          received'[w] # received[w] =>
              LET d == Last(received'[w]).documentId
              IN  /\ d \in DOMAIN document_subscribers
                  /\ \E c \in document_subscribers[d] :
                        /\ Connected(c)
                        /\ active_connections[c] = w
                        /\ <<c, d>> \notin unsubscribed]_vars

\* C1 witness: client c1 got the first update for d, then unsubscribed; the
\* second update for d went to the other subscriber c2 only.
C1_Witness ==
    \E d \in Docs, c1 \in Clients, c2 \in Clients :
        /\ c1 # c2
        /\ Connected(c1) /\ Connected(c2)
        /\ <<c1, d>> \in unsubscribed
        /\ d \in DOMAIN document_subscribers
        /\ c2 \in document_subscribers[d]
        /\ Len(received[active_connections[c1]]) = 1
        /\ Len(received[active_connections[c2]]) = 2
        /\ \A u \in Range(received[active_connections[c2]]) : u.documentId = d
        /\ \A u \in Range(received[active_connections[c1]]) : u.documentId = d

\* C3: of two updates for one document, built in that order, every socket
\* that stayed subscribed and connected through both publishes has received
\* both, the earlier one first.
C3_DeliveredInEmissionOrder ==
    \A i \in 1..Len(emitted), k \in 1..Len(emitted) :
        ( /\ i < k
          /\ emitted[i].update.documentId = emitted[k].update.documentId
          /\ ~InProgress(i)
          /\ ~InProgress(k) )
        => \A w \in audience[i] \cap audience[k] :
               \E m \in 1..Len(received[w]), n \in 1..Len(received[w]) :
                   /\ m < n
                   /\ received[w][m] = emitted[i].update
                   /\ received[w][n] = emitted[k].update

\* C4: when a publish ends, its update is the document's stored status (or
\* an older one than the stored), every socket subscribed and connected
\* throughout has received it, and every client whose send failed is gone
\* from the connection table and from every subscriber set.
C4_PublishStoresSendsPrunes ==
    \A j \in Jobs :
        jobs[j].pc \in {"bcast_done", "raised"} =>
            LET i == LatestIndex(j)
                u == emitted[i].update
            IN  /\ u.documentId \in DOMAIN conversion_status
                /\ conversion_status[u.documentId].timestamp >= u.timestamp
                /\ \A w \in audience[i] : u \in Range(received[w])
                /\ \A c \in Range(jobs[j].it.failed) :
                      /\ ~Connected(c)
                      /\ \A d \in DOMAIN document_subscribers :
                            c \notin document_subscribers[d]

\* C5: the step in which a socket's handler calls disconnect(c) leaves c out
\* of the connection table and out of every subscriber set, and changes no
\* other client's entry or memberships.
C5_DisconnectRemovesClient ==
    [][\A w \in Sockets :
          (sockets[w].state # "closed" /\ sockets'[w].state = "closed") =>
              LET c == sockets[w].client
              IN  /\ c \notin DOMAIN active_connections'
                  /\ \A d \in DOMAIN document_subscribers' :
                        c \notin document_subscribers'[d]
                  /\ DOMAIN document_subscribers' = DOMAIN document_subscribers
                  /\ \A o \in Clients \ {c} :
                        /\ (o \in DOMAIN active_connections') =
                               (o \in DOMAIN active_connections)
                        /\ o \in DOMAIN active_connections =>
                               active_connections'[o] = active_connections[o]
                        /\ \A d \in DOMAIN document_subscribers :
                               (o \in document_subscribers'[d]) =
                                   (o \in document_subscribers[d])]_vars

\* the indices of the updates built for document d
UpdatesFor(d) == {i \in 1..Len(emitted) : emitted[i].update.documentId = d}

Max(S) == CHOOSE x \in S : \A y \in S : y <= x

Terminal(u) == u.status \in {"completed", "failed"}

\* C2: for every document whose requests never shared the documentId while
\* in flight, at most one terminal update is ever built, a terminal update
\* comes after a processing update for the document, and the statuses a
\* socket receives for the document are strictly increasing in the order
\* pending, processing, terminal.
StatusRank(u) ==
    CASE u.status = "pending" -> 1
      [] u.status = "processing" -> 2
      [] OTHER -> 3

C2_OneTerminalPerDocument ==
    \A d \in Docs :
        (\A i \in UpdatesFor(d) : ~emitted[i].overlap) =>
            LET term == {i \in UpdatesFor(d) : Terminal(emitted[i].update)}
            IN  /\ Cardinality(term) <= 1
                /\ \A i \in term :
                      \E k \in UpdatesFor(d) :
                          k < i /\ emitted[k].update.status = "processing"
                /\ \A w \in Sockets :
                      \A m \in 1..Len(received[w]), n \in 1..Len(received[w]) :
                          ( /\ m < n
                            /\ received[w][m].documentId = d
                            /\ received[w][n].documentId = d )
                          => StatusRank(received[w][m]) < StatusRank(received[w][n])

\* C6: a call of get_status for document d returns the update most recently
\* passed to update_status for d, or an 'unknown' update when there is none,
\* and leaves the connection table, the subscriber sets and the stored
\* statuses as they are.
C6_GetStatusReturnsLatest ==
    [][got' # got =>
          LET d == got'.documentId IN
              /\ IF UpdatesFor(d) = {}
                 THEN got'.status = "unknown" /\ got'.progress = 0
                 ELSE got' = emitted[Max(UpdatesFor(d))].update
              /\ UNCHANGED hubvars]_vars

\* C6 witness: get_status returned the second update of a document that has
\* no subscriber set
C6_Witness ==
    /\ got.status \in {"completed", "failed"}
    /\ got.documentId \notin DOMAIN document_subscribers
    /\ Cardinality(UpdatesFor(got.documentId)) = 2
    /\ got = emitted[Max(UpdatesFor(got.documentId))].update

\* C7: a request that was accepted for conversion and has returned its
\* response has had a terminal update published for its document.
C7_AcceptedJobPublishesTerminal ==
    \A j \in Jobs :
        (jobs[j].pc = "done" /\ jobs[j].accepted) =>
            \E i \in 1..Len(emitted) :
                emitted[i].by = j /\ Terminal(emitted[i].update)

\* C8: a converter call that has run longer than max_processing_time is not
\* waited for: the job has a failed result.
C8_OverrunFails ==
    \A j \in Jobs :
        jobs[j].elapsed > max_processing_time =>
            /\ jobs[j].pc # "converting"
            /\ jobs[j].result.status = "failed"

\* C9: when the converter call of a request returns, no status request for
\* another document that arrived during the call is still waiting.
C9_LoopServesOthersDuringConversion ==
    [][\A j \in Jobs :
          (jobs[j].pc = "converting" /\ jobs'[j].pc # "converting") =>
              \A d \in waiting : d = jobs[j].documentId]_vars

\* C10: POST /api/documents/convert for a path that does not exist answers
\* with HTTP 404.
C10_MissingFileIs404 ==
    \A j \in Jobs :
        ( /\ jobs[j].endpoint = "convert"
          /\ jobs[j].pc = "done"
          /\ ~jobs[j].file.exists )
        => jobs[j].response.http = 404

\* C11: a POST /api/documents/upload-convert whose file name does not end
\* in .pdf is answered with HTTP 400 and starts no conversion.
C11_NonPdfUploadIs400 ==
    \A j \in Jobs :
        ( /\ jobs[j].endpoint = "upload"
          /\ jobs[j].pc = "done"
          /\ ~jobs[j].file.pdf )
        => /\ jobs[j].response.http = 400
           /\ ~jobs[j].accepted

\* a request the endpoint's own checks do not reject as a bad request: the
\* path of POST /convert exists, the uploaded file is named *.pdf
WellFormed(job) ==
    \/ job.endpoint = "convert" /\ job.file.exists
    \/ job.endpoint = "upload" /\ job.file.pdf

\* C12: every well-formed request to either conversion endpoint is answered
\* with HTTP 200 and a body that carries a status, and when the conversion
\* failed the body's status is failed.
C12_FailuresAreBodies ==
    \A j \in Jobs :
        (jobs[j].pc = "done" /\ WellFormed(jobs[j])) =>
            /\ jobs[j].response.http = 200
            /\ jobs[j].response.status # "none"
            /\ jobs[j].result.status = "failed" =>
                   jobs[j].response.status = "failed"

\* C12 witness: an upload whose conversion failed in the converter was
\* answered with a failed body
C12_Witness ==
    \E j \in Jobs :
        /\ jobs[j].pc = "done"
        /\ jobs[j].endpoint = "upload"
        /\ jobs[j].accepted
        /\ jobs[j].result.status = "failed"
        /\ jobs[j].response.http = 200
        /\ jobs[j].response.status = "failed"

\* C13: the status of every record returned by convert_pdf_to_markdown and
\* by the conversion endpoints is completed or failed.
C13_ReturnedStatusIsTerminal ==
    \A j \in Jobs :
        /\ jobs[j].result.status # "none" =>
               jobs[j].result.status \in {"completed", "failed"}
        /\ (jobs[j].pc = "done" /\ jobs[j].response.http = 200) =>
               jobs[j].response.status \in {"completed", "failed"}

\* C25: a publish ends without an error, and every socket subscribed and
\* connected for the whole of it has received its update, also when clients
\* subscribe, unsubscribe or disconnect while the publish is suspended at a
\* send.
C25_PublishSurvivesMutation ==
    \A j \in Jobs :
        /\ jobs[j].pc # "raised"
        /\ jobs[j].pc = "bcast_done" =>
              \A w \in audience[LatestIndex(j)] :
                  CurrentUpdate(j) \in Range(received[w])

\* C26: when a socket closes while the connection table holds another, open
\* socket under the same client id, the table entry and the subscriptions of
\* that client id stay as they are.
C26_OlderCloseKeepsNewer ==
    [][\A w \in Sockets :
          LET c == sockets[w].client
          IN  (/\ sockets[w].state # "closed"
               /\ sockets'[w].state = "closed"
               /\ c \in DOMAIN active_connections
               /\ active_connections[c] # w
               /\ sockets[active_connections[c]].state = "open") =>
                  /\ c \in DOMAIN active_connections'
                  /\ active_connections'[c] = active_connections[c]
                  /\ \A d \in DOMAIN document_subscribers :
                        c \in document_subscribers[d] =>
                            /\ d \in DOMAIN document_subscribers'
                            /\ c \in document_subscribers'[d]]_vars

\* C27: every client id in a document's subscriber set is in the connection
\* table.
C27_SubscribersAreConnected ==
    \A d \in DOMAIN document_subscribers :
        document_subscribers[d] \subseteq DOMAIN active_connections

\* C28: the subscriber index holds no document with an empty subscriber set.
C28_NoEmptySubscriberSet ==
    \A d \in DOMAIN document_subscribers : document_subscribers[d] # {}

\* C29: when POST /api/documents/convert has emitted the processing event
\* and returned, the stored status of its document is terminal: completed
\* exactly when the response reports a successful conversion, failed exactly
\* when the response's status is failed.
C29_ResponseAgreesWithStoredStatus ==
    \A j \in Jobs :
        (/\ jobs[j].endpoint = "convert"
         /\ jobs[j].pc = "done"
         /\ \E i \in 1..Len(emitted) : emitted[i].by = j) =>
            LET d == jobs[j].documentId
                r == jobs[j].response
            IN  /\ d \in DOMAIN conversion_status
                /\ conversion_status[d].status \in {"completed", "failed"}
                /\ (conversion_status[d].status = "completed") =
                       (r.http = 200 /\ r.status \notin {"failed", "none"})
                /\ (conversion_status[d].status = "failed") = (r.status = "failed")

\* the step in which the handler of request j runs the encryption probe:
\* convert_pdf in the step that takes the request, upload_and_convert in the
\* step after its file was closed; jobs'[j].file is the file the probe read
Probes(j) ==
    \/ jobs[j].pc = "idle" /\ jobs'[j].endpoint = "convert"
    \/ jobs[j].pc = "close_done" /\ jobs'[j].pc # "close_done"

\* C30: the step in which either conversion endpoint probes a PDF that is
\* encrypted answers the request with the failed body carrying
\* PDF_ENCRYPTED, without entering the converter, without emitting a status
\* event, and leaving the hub's stored statuses, subscriber sets, connection
\* table and the sockets' deliveries as they were.
C30_EncryptedPdfLeavesHubAlone ==
    [][\A j \in Jobs :
          (/\ Probes(j)
           /\ jobs'[j].file.exists
           /\ jobs'[j].file.encrypted) =>
              /\ jobs'[j].pc = "done"
              /\ jobs'[j].response = FailedBody("PDF_ENCRYPTED")
              /\ ~jobs'[j].accepted
              /\ jobs'[j].result = NoResult
              /\ \A k \in Jobs : jobs'[k].pc # "converting" \/ jobs[k].pc = "converting"
              /\ running' = running
              /\ emitted' = emitted
              /\ conversion_status' = conversion_status
              /\ document_subscribers' = document_subscribers
              /\ active_connections' = active_connections
              /\ received' = received]_vars

\* C30 witness: an upload of an encrypted PDF for a document that has a
\* connected subscriber was answered, and no event was emitted
C30_Witness ==
    \E j \in Jobs :
        /\ jobs[j].pc = "done"
        /\ jobs[j].endpoint = "upload"
        /\ jobs[j].file = EncryptedPdf
        /\ jobs[j].response = FailedBody("PDF_ENCRYPTED")
        /\ jobs[j].documentId \in DOMAIN document_subscribers
        /\ \E c \in document_subscribers[jobs[j].documentId] : Connected(c)
        /\ emitted = <<>>

\* ---- PDFConverter.validate_pdf (converters/pdf_converter.py) --------------
\* the size limit of validate_pdf, in bytes
MaxPdfBytes == 100 * 1024 * 1024

\* the sizes path.stat().st_size is drawn from: empty, small, at the limit,
\* one byte over it
Sizes == {0, 1024, MaxPdfBytes, MaxPdfBytes + 1}

\* how `with open(..)` and pypdf.PdfReader(..) end on the file
ProbeOutcomes == {"ok", "PdfReadError", "OSError"}

MaxPages == 1

\* What validate_pdf and the converter read of a path: whether it exists,
\* whether its suffix is .pdf, its size, how opening and parsing it ends,
\* whether pypdf reports it encrypted, and its page count.
Sources ==
    [exists : BOOLEAN, pdf : BOOLEAN, size : Sizes, probe : ProbeOutcomes,
     encrypted : BOOLEAN, pages : 0..MaxPages]

Verdict(ok, reason) == [ok |-> ok, reason |-> reason]

validate_pdf_size_first(f) ==
    IF ~f.exists THEN Verdict(FALSE, "File does not exist")
    ELSE IF f.size = 0 THEN Verdict(FALSE, "PDF file is empty")
    ELSE IF f.size > MaxPdfBytes THEN Verdict(FALSE, "PDF file is too large (>100MB)")
    ELSE IF ~f.pdf THEN Verdict(FALSE, "File is not a PDF")
    ELSE IF f.probe = "PdfReadError" THEN Verdict(FALSE, "PDF is corrupted or unreadable")
    ELSE IF f.probe = "OSError" THEN Verdict(FALSE, "Validation error")
    ELSE IF f.encrypted THEN Verdict(FALSE, "PDF is encrypted")
    ELSE IF f.pages = 0 THEN Verdict(FALSE, "PDF has no pages")
    ELSE Verdict(TRUE, "None")

\* validate_pdf: the checks in the order of the code; an exception of the
\* open/PdfReader block lands in one of the two except branches
validate_pdf(f) ==
    IF ~f.exists THEN Verdict(FALSE, "File does not exist")
    ELSE IF ~f.pdf THEN Verdict(FALSE, "File is not a PDF")
    ELSE IF f.size = 0 THEN Verdict(FALSE, "PDF file is empty")
    ELSE IF f.size > MaxPdfBytes THEN Verdict(FALSE, "PDF file is too large (>100MB)")
    ELSE IF f.probe = "PdfReadError" THEN Verdict(FALSE, "PDF is corrupted or unreadable")
    ELSE IF f.probe = "OSError" THEN Verdict(FALSE, "Validation error")
    ELSE IF f.encrypted THEN Verdict(FALSE, "PDF is encrypted")
    ELSE IF f.pages = 0 THEN Verdict(FALSE, "PDF has no pages")
    ELSE Verdict(TRUE, "None")

ValidateCalls == {[fn |-> "validate_pdf", arg |-> f, done |-> FALSE] : f \in Sources}

\* PDFConverter.validate_pdf(file_path) returns
ValidatePdf ==
    /\ call.fn = "validate_pdf"
    /\ ~call.done
    /\ call' = [fn |-> call.fn, arg |-> call.arg, done |-> TRUE,
                out |-> validate_pdf(call.arg)]
    /\ UNCHANGED <<active_connections, document_subscribers, conversion_status,
                   sockets, received, emitted, jobs, running, waiting, got, ops,
                   audience, unsubscribed, upload_dir>>

\* ---- DoclingService.convert_pdf_to_markdown, called directly ---------------
MaxPictures == 3

\* how saving one picture ends: pil_image.save returns, pil_image.save (or
\* the hashing before it) raises, or the picture has no pil_image attribute
PictureOutcomes == {"saved", "save_raises", "no_pil_image"}

PictureLists == UNION {[1..n -> PictureOutcomes] : n \in 0..MaxPictures}

\* the statement of the try block that raises, if any, after the two path
\* checks: converter.convert, export_to_markdown, reading document.pictures,
\* or the assembly of the metadata
Stages == {"none", "convert", "export_to_markdown", "pictures", "metadata"}

\* a source DocumentConverter.convert can return on
Convertible(f) ==
    /\ f.exists /\ f.pdf
    /\ f.size > 0
    /\ f.probe = "ok"
    /\ ~f.encrypted
    /\ f.pages > 0

\* What the converter does on a source: the stage that raises and the class
\* of what it raises, the text it exports, the pictures of the document.
ConverterRuns(f) ==
    IF Convertible(f)
    THEN [raises : Stages, error : ErrorClasses, text : {"", "text"},
          pictures : PictureLists]
    ELSE [raises : {"convert"}, error : ErrorClasses, text : {""}, pictures : {<<>>}]

\* the result dict as initialised at the top of convert_pdf_to_markdown
EmptyMarkdown == [text |-> "", refs |-> <<>>]

FailedRecord(errors) ==
    [status |-> "failed", errors |-> errors, markdown |-> EmptyMarkdown,
     images |-> <<>>, metadata |-> {}]

SaveImageRecordsFailed(saved, idx, outcome) ==
    IF outcome \in {"saved", "save_raises"} THEN Append(saved, idx) ELSE saved

\* one turn of the loop of _extract_and_save_images: the path is appended
\* after pil_image.save returned; an exception continues with the next one
SaveImage(saved, idx, outcome) ==
    IF outcome = "saved" THEN Append(saved, idx) ELSE saved

RECURSIVE SaveFrom(_, _, _)
SaveFrom(images, idx, saved) ==
    IF idx > Len(images) THEN saved
    ELSE SaveFrom(images, idx + 1, SaveImage(saved, idx, images[idx]))

\* _extract_and_save_images: the saved paths, each named by the picture's
\* 1-based position in the document
extract_and_save_images(images) == SaveFrom(images, 1, <<>>)

\* the exception that leaves the try block, if any
ExceptionOf(f, conv) ==
    IF ~f.exists THEN [kind |-> "FileNotFoundError", msg |-> "PDF file not found"]
    ELSE IF ~f.pdf THEN [kind |-> "ValueError", msg |-> "File must be a PDF"]
    ELSE IF conv.raises # "none" THEN [kind |-> conv.error, msg |-> conv.raises]
    ELSE [kind |-> "none", msg |-> ""]

HandleKnownExceptions(e) ==
    IF e.kind = "FileNotFoundError"
    THEN FailedRecord(<<[prefix |-> "", cause |-> e.msg]>>)
    ELSE IF e.kind = "ValueError"
    THEN FailedRecord(<<[prefix |-> "Conversion error: ", cause |-> e.msg]>>)
    ELSE [status |-> "raised", errors |-> <<>>, markdown |-> EmptyMarkdown,
          images |-> <<>>, metadata |-> {}]

\* the two except branches
HandleException(e) ==
    IF e.kind = "FileNotFoundError"
    THEN FailedRecord(<<[prefix |-> "", cause |-> e.msg]>>)
    ELSE FailedRecord(<<[prefix |-> "Conversion error: ", cause |-> e.msg]>>)

MetadataKeys ==
    {"pageCount", "processingTime", "accuracy", "extractedTables", "characterCount"}

\* the converter is called: both path checks passed
ConverterInvoked(f) == f.exists /\ f.pdf

convert_pdf_to_markdown(f, conv) ==
    LET e == ExceptionOf(f, conv)
        saved == extract_and_save_images(conv.pictures)
    IN  IF e.kind # "none" THEN HandleException(e)
        ELSE [status |-> "success", errors |-> <<>>,
              markdown |-> [text |-> conv.text, refs |-> saved],
              images |-> saved, metadata |-> MetadataKeys]

ConvertCalls ==
    UNION {{[fn |-> "convert_pdf_to_markdown", arg |-> f, conv |-> c,
             done |-> FALSE] : c \in ConverterRuns(f)} : f \in Sources}

\* DoclingService.convert_pdf_to_markdown(file_path, document_id) returns
ConvertPdfToMarkdown ==
    /\ call.fn = "convert_pdf_to_markdown"
    /\ ~call.done
    /\ call' = [fn |-> call.fn, arg |-> call.arg, conv |-> call.conv, done |-> TRUE,
                out |-> convert_pdf_to_markdown(call.arg, call.conv)]
    /\ UNCHANGED <<active_connections, document_subscribers, conversion_status,
                   sockets, received, emitted, jobs, running, waiting, got, ops,
                   audience, unsubscribed, upload_dir>>

\* The validator and the orchestrator called directly, once, on any source.
InitOrchestrator ==
    /\ InitService
    /\ call \in ValidateCalls \cup ConvertCalls

NextOrchestrator ==
    \/ ValidatePdf
    \/ ConvertPdfToMarkdown

SpecOrchestrator == InitOrchestrator /\ [][NextOrchestrator]_vars

\* a finished direct call of function fn
Returned(fn) == call.fn = fn /\ call.done

\* C14: convert_pdf_to_markdown returns a record and never raises; for a
\* missing path, a suffix other than .pdf, or an exception of the converter
\* or of a later stage, the record has status failed, one error naming the
\* cause, and empty markdown, images and metadata; a record that is not
\* failed has no errors.
ExpectedCause(f, conv) ==
    IF ~f.exists THEN "PDF file not found"
    ELSE IF ~f.pdf THEN "File must be a PDF"
    ELSE conv.raises

C14_FailuresAreFailedRecords ==
    Returned("convert_pdf_to_markdown") =>
        LET f == call.arg
            conv == call.conv
            r == call.out
        IN  /\ r.status \in {"failed", "success"}
            /\ (~f.exists \/ ~f.pdf \/ conv.raises # "none") =>
                   /\ r.status = "failed"
                   /\ Len(r.errors) = 1
                   /\ r.errors[1].cause = ExpectedCause(f, conv)
                   /\ r.markdown = EmptyMarkdown
                   /\ r.images = <<>>
                   /\ r.metadata = {}
            /\ r.status # "failed" => r.errors = <<>>

\* C14 witness: the metadata stage raised after text was exported and a
\* picture was saved; the record is failed and holds none of it
C14_Witness ==
    /\ Returned("convert_pdf_to_markdown")
    /\ call.conv.raises = "metadata"
    /\ call.conv.text = "text"
    /\ \E i \in 1..Len(call.conv.pictures) : call.conv.pictures[i] = "saved"
    /\ call.out.status = "failed"
    /\ call.out.markdown = EmptyMarkdown
    /\ call.out.images = <<>>

\* C15: a call of convert_pdf_to_markdown invokes the converter, and returns
\* a successful record, only for a source that validate_pdf accepts.
C15_ConverterOnlyOnValidSources ==
    Returned("convert_pdf_to_markdown") =>
        /\ ConverterInvoked(call.arg) => validate_pdf(call.arg).ok
        /\ call.out.status = "success" => validate_pdf(call.arg).ok

\* C16: validate_pdf returns (False, reason) with the reason of the first
\* failing check in the order exists, extension, size > 0, size <= 100MB,
\* parseable, not encrypted, page count > 0, and (True, None) exactly when
\* every check passes.
Checks(f) ==
    <<f.exists, f.pdf, f.size > 0, f.size <= 100 * 1024 * 1024, f.probe = "ok",
      ~f.encrypted, f.pages > 0>>

Reasons(f) ==
    <<"File does not exist", "File is not a PDF", "PDF file is empty",
      "PDF file is too large (>100MB)",
      IF f.probe = "PdfReadError" THEN "PDF is corrupted or unreadable"
      ELSE "Validation error",
      "PDF is encrypted", "PDF has no pages">>

C16_FirstFailingCheck ==
    Returned("validate_pdf") =>
        LET f == call.arg
            failing == {i \in 1..7 : ~Checks(f)[i]}
        IN  IF failing = {}
            THEN call.out = Verdict(TRUE, "None")
            ELSE call.out = Verdict(FALSE, Reasons(f)[Min(failing)])

\* C16 witness: a 0-byte file that is not named *.pdf fails two checks and
\* was rejected for the earlier one, its extension
C16_Witness ==
    /\ Returned("validate_pdf")
    /\ call.arg.exists /\ ~call.arg.pdf /\ call.arg.size = 0
    /\ call.out = Verdict(FALSE, "File is not a PDF")

\* C17: a picture whose save raises does not fail the conversion, and the
\* returned image list holds exactly the saved pictures in document order.
C17_FailedImagesOmitted ==
    ( /\ Returned("convert_pdf_to_markdown")
      /\ ConverterInvoked(call.arg)
      /\ call.conv.raises = "none" )
    => LET pics == call.conv.pictures
           imgs == call.out.images
       IN  /\ call.out.status = "success"
           /\ Len(imgs) = Cardinality({i \in 1..Len(pics) : pics[i] = "saved"})
           /\ \A k \in 1..Len(imgs) :
                 /\ imgs[k] \in 1..Len(pics)
                 /\ pics[imgs[k]] = "saved"
                 /\ k > 1 => imgs[k - 1] < imgs[k]

\* C17 witness: the second of three pictures failed to save; the first and
\* the third are returned
C17_Witness ==
    /\ Returned("convert_pdf_to_markdown")
    /\ call.conv.raises = "none"
    /\ call.conv.pictures = <<"saved", "save_raises", "saved">>
    /\ call.out.status = "success"
    /\ call.out.images = <<1, 3>>

\* ---- MarkdownFormatter (utils/markdown_formatter.py) ----------------------
\* Text is a sequence of characters, each a one-character string.
MaxChars == 4

NL == "\n"

Blank == {" ", "\t"}

\* the length of the run of characters of set cs that starts at s[i]
RECURSIVE RunLen(_, _, _)
RunLen(s, i, cs) ==
    IF i > Len(s) \/ s[i] \notin cs THEN 0 ELSE 1 + RunLen(s, i + 1, cs)

Repeat(ch, n) == [k \in 1..n |-> ch]

\* re.sub(ch{least,}, ch * keep, s), scanning s from position i
RECURSIVE CollapseRuns(_, _, _, _, _)
CollapseRuns(s, i, ch, least, keep) ==
    IF i > Len(s) THEN <<>>
    ELSE IF s[i] = ch
    THEN LET n == RunLen(s, i, {ch})
         IN  Repeat(ch, IF n >= least THEN keep ELSE n)
                 \o CollapseRuns(s, i + n, ch, least, keep)
    ELSE <<s[i]>> \o CollapseRuns(s, i + 1, ch, least, keep)

\* content.split('\n')
RECURSIVE SplitLines(_)
SplitLines(s) ==
    LET hits == {i \in 1..Len(s) : s[i] = NL}
    IN  IF hits = {} THEN <<s>>
        ELSE <<SubSeq(s, 1, Min(hits) - 1)>>
                 \o SplitLines(SubSeq(s, Min(hits) + 1, Len(s)))

\* '\n'.join(lines)
RECURSIVE JoinLines(_)
JoinLines(lines) ==
    IF Len(lines) = 1 THEN lines[1]
    ELSE lines[1] \o <<NL>> \o JoinLines(Tail(lines))

\* re.sub(r'^[ \t]+', '', line)
StripLeading(line) == SubSeq(line, RunLen(line, 1, Blank) + 1, Len(line))

Reverse(s) == [k \in 1..Len(s) |-> s[Len(s) + 1 - k]]

\* re.sub(r'[ \t]+$', '', line)
StripTrailing(line) == SubSeq(line, 1, Len(line) - RunLen(Reverse(line), 1, Blank))

\* line.startswith('#')
StartsWithHash(line) == Len(line) > 0 /\ line[1] = "#"

\* the loop of clean_markdown: an empty line goes in front of a heading
\* line that follows a heading line
RECURSIVE SeparateHeadings(_, _)
SeparateHeadings(lines, prev_was_heading) ==
    IF lines = <<>> THEN <<>>
    ELSE LET is_heading == StartsWithHash(lines[1])
         IN  (IF is_heading /\ prev_was_heading THEN << <<>> >> ELSE <<>>)
                 \o <<lines[1]>>
                 \o SeparateHeadings(Tail(lines), is_heading)

clean_markdown(content) ==
    LET c1 == CollapseRuns(content, 1, NL, 3, 2)
        c2 == CollapseRuns(c1, 1, " ", 2, 1)
        c3 == [k \in 1..Len(SplitLines(c2)) |-> StripLeading(SplitLines(c2)[k])]
        c4 == [k \in 1..Len(c3) |-> StripTrailing(c3[k])]
    IN  JoinLines(SeparateHeadings(c4, FALSE))

\* ---- MarkdownFormatter.format_lists ---------------------------------------
BulletMarks == {"-", "*", "+"}

Digits == {"1"}

\* re.match(r'^[-*+]\s+', stripped)
IsBullet(stripped) ==
    Len(stripped) >= 2 /\ stripped[1] \in BulletMarks /\ stripped[2] \in Blank

\* re.match(r'^\d+\.\s+', stripped)
IsNumbered(stripped) ==
    LET n == RunLen(stripped, 1, Digits)
    IN  /\ n >= 1
        /\ Len(stripped) >= n + 2
        /\ stripped[n + 1] = "."
        /\ stripped[n + 2] \in Blank

\* the text group of re.match(r'^(\d+)\.\s+(.+)$', stripped): what follows
\* the whitespace, or its last character when nothing follows and \s+ can
\* give one back; empty when the pattern does not match
NumberedText(stripped) ==
    LET n == RunLen(stripped, 1, Digits)
        w == RunLen(stripped, n + 2, Blank)
        rest == SubSeq(stripped, n + 2 + w, Len(stripped))
    IN  IF rest # <<>> THEN rest
        ELSE IF w >= 2 THEN <<stripped[Len(stripped)]>>
        ELSE <<>>

\* the body of the loop of format_lists for one line
FormatListLine(line) ==
    LET stripped == StripLeading(line)
        indent_level == ((Len(line) - Len(stripped)) \div 2) * 2
    IN  IF IsBullet(stripped)
        THEN Repeat(" ", indent_level) \o <<"-", " ">> \o SubSeq(stripped, 3, Len(stripped))
        ELSE IF IsNumbered(stripped) /\ NumberedText(stripped) # <<>>
        THEN Repeat(" ", indent_level)
                 \o SubSeq(stripped, 1, RunLen(stripped, 1, Digits))
                 \o <<".", " ">> \o NumberedText(stripped)
        ELSE line

format_lists(content) ==
    LET lines == SplitLines(content)
    IN  JoinLines([k \in 1..Len(lines) |-> FormatListLine(lines[k])])

\* the characters the texts given to clean_markdown and format_lists are
\* made of
CleanAlphabet == {NL, " ", "\t", "#", "a"}

ListAlphabet == {NL, " ", "\t", "-", "*", "1", ".", "a"}

\* MarkdownFormatter.clean_markdown(content) returns
CleanMarkdown ==
    /\ call.fn = "clean_markdown"
    /\ ~call.done
    /\ call' = [fn |-> call.fn, arg |-> call.arg, done |-> TRUE,
                out |-> clean_markdown(call.arg)]
    /\ UNCHANGED <<active_connections, document_subscribers, conversion_status,
                   sockets, received, emitted, jobs, running, waiting, got, ops,
                   audience, unsubscribed, upload_dir>>

\* MarkdownFormatter.format_lists(content) returns
FormatLists ==
    /\ call.fn = "format_lists"
    /\ ~call.done
    /\ call' = [fn |-> call.fn, arg |-> call.arg, done |-> TRUE,
                out |-> format_lists(call.arg)]
    /\ UNCHANGED <<active_connections, document_subscribers, conversion_status,
                   sockets, received, emitted, jobs, running, waiting, got, ops,
                   audience, unsubscribed, upload_dir>>

\* ---- fix_heading_hierarchy and add_table_of_contents ----------------------
\* A document is a sequence of lines; of a line these two functions read
\* the number of leading '#' and whether whitespace and a title follow them
\* ('#' * hashes + ' ' * gap + title).
MaxLevel == 4

MaxLines == 4

Lines == [hashes : 0..MaxLevel, gap : 0..1]

\* line.startswith('#') and re.match(r'^(#+)\s+(.+)$', line)
IsHeading(line) == line.hashes >= 1 /\ line.gap >= 1

ClampLevelLoose(level, heading_stack) ==
    IF heading_stack # <<>> /\ level > Last(heading_stack) + 2
    THEN Last(heading_stack) + 2
    ELSE level

\* if heading_stack: if level > last_level + 1: level = last_level + 1
ClampLevel(level, heading_stack) ==
    IF heading_stack # <<>> /\ level > Last(heading_stack) + 1
    THEN Last(heading_stack) + 1
    ELSE level

\* while heading_stack and heading_stack[-1] >= level: heading_stack.pop()
RECURSIVE PopDownTo(_, _)
PopDownTo(heading_stack, level) ==
    IF heading_stack # <<>> /\ Last(heading_stack) >= level
    THEN PopDownTo(SubSeq(heading_stack, 1, Len(heading_stack) - 1), level)
    ELSE heading_stack

RECURSIVE FixFrom(_, _, _)
FixFrom(lines, i, heading_stack) ==
    IF i > Len(lines) THEN <<>>
    ELSE IF ~IsHeading(lines[i]) THEN <<lines[i]>> \o FixFrom(lines, i + 1, heading_stack)
    ELSE LET level == ClampLevel(lines[i].hashes, heading_stack)
             line == IF level # lines[i].hashes
                     THEN [hashes |-> level, gap |-> 1]
                     ELSE lines[i]
         IN  <<line>> \o FixFrom(lines, i + 1, Append(PopDownTo(heading_stack, level), level))

fix_heading_hierarchy(lines) == FixFrom(lines, 1, <<>>)

\* the headings add_table_of_contents lists: level <= 3
TocHeadings(lines) == SelectSeq(lines, LAMBDA l : IsHeading(l) /\ l.hashes <= 3)

\* the lines of toc: the header line, the empty line its '\n' makes, one
\* entry per listed heading, and the empty line before the content
TocLines(lines) ==
    <<[toc |-> "header"], [toc |-> "blank"]>>
        \o [k \in 1..Len(TocHeadings(lines)) |->
               [toc |-> "entry", level |-> TocHeadings(lines)[k].hashes]]
        \o <<[toc |-> "blank"]>>

add_table_of_contents_from_two(lines) ==
    IF Len(TocHeadings(lines)) >= 2 THEN TocLines(lines) \o lines ELSE lines

\* if len(headings) > 2: return toc + content; return content
add_table_of_contents(lines) ==
    IF Len(TocHeadings(lines)) > 2 THEN TocLines(lines) \o lines ELSE lines

\* MarkdownFormatter.fix_heading_hierarchy(content) returns
FixHeadingHierarchy ==
    /\ call.fn = "fix_heading_hierarchy"
    /\ ~call.done
    /\ call' = [fn |-> call.fn, arg |-> call.arg, done |-> TRUE,
                out |-> fix_heading_hierarchy(call.arg)]
    /\ UNCHANGED <<active_connections, document_subscribers, conversion_status,
                   sockets, received, emitted, jobs, running, waiting, got, ops,
                   audience, unsubscribed, upload_dir>>

\* MarkdownFormatter.add_table_of_contents(content) returns
AddTableOfContents ==
    /\ call.fn = "add_table_of_contents"
    /\ ~call.done
    /\ call' = [fn |-> call.fn, arg |-> call.arg, done |-> TRUE,
                out |-> add_table_of_contents(call.arg)]
    /\ UNCHANGED <<active_connections, document_subscribers, conversion_status,
                   sockets, received, emitted, jobs, running, waiting, got, ops,
                   audience, unsubscribed, upload_dir>>

\* ---- MarkdownFormatter.format_table ---------------------------------------

MaxRows == 2
MaxCols == 2

\* the cells a table is built from: an empty cell, a cell shorter than the
\* minimum column width, a cell of dashes, and a cell longer than the
\* minimum width with a space inside
Cells == {<<>>, <<"a">>, <<"-", "-", "-">>, <<"a", " ", "b", "c">>}

\* str(row[i]) if i < len(row) else ''
CellAt(row, i) == IF i <= Len(row) THEN row[i] ELSE <<>>

\* col_widths: the longest cell of the column, at least 3
ColWidth(table_data, i) ==
    Max({3} \cup {Len(CellAt(table_data[r], i)) : r \in 1..Len(table_data)})

\* str.ljust(width)
Ljust(cell, width) ==
    IF Len(cell) >= width THEN cell ELSE cell \o Repeat(" ", width - Len(cell))

\* sep.join(parts)
RECURSIVE JoinWith(_, _)
JoinWith(parts, sep) ==
    IF parts = <<>> THEN <<>>
    ELSE IF Len(parts) = 1 THEN parts[1]
    ELSE parts[1] \o sep \o JoinWith(Tail(parts), sep)

\* '| ' + ' | '.join(cell.ljust(col_widths[i])) + ' |'
RowLine(table_data, row) ==
    <<"|", " ">>
        \o JoinWith([i \in 1..Len(table_data[1]) |->
                         Ljust(CellAt(row, i), ColWidth(table_data, i))],
                    <<" ", "|", " ">>)
        \o <<" ", "|">>

\* '|' + '|'.join('-' * (width + 2)) + '|'
SeparatorLine(table_data) ==
    <<"|">>
        \o JoinWith([i \in 1..Len(table_data[1]) |->
                         Repeat("-", ColWidth(table_data, i) + 2)],
                    <<"|">>)
        \o <<"|">>

\* for row in table_data[2:]: the data rows with the first one left out
DataRowsFromThird(table_data) == SubSeq(table_data, 3, Len(table_data))

\* for row in table_data[1:]
DataRows(table_data) == SubSeq(table_data, 2, Len(table_data))

\* MarkdownFormatter.format_table
format_table(table_data) ==
    IF table_data = <<>> \/ table_data[1] = <<>> THEN <<>>
    ELSE LET rows == DataRows(table_data)
         IN  JoinLines(<<RowLine(table_data, table_data[1]),
                         SeparatorLine(table_data)>>
                       \o [k \in 1..Len(rows) |-> RowLine(table_data, rows[k])])

FormatTable ==
    /\ call.fn = "format_table"
    /\ ~call.done
    /\ call' = [fn |-> call.fn, arg |-> call.arg, done |-> TRUE,
                out |-> format_table(call.arg)]
    /\ UNCHANGED <<active_connections, document_subscribers, conversion_status,
                   sockets, received, emitted, jobs, running, waiting, got, ops,
                   audience, unsubscribed, upload_dir>>

\* a call of function fn on argument x that has not returned yet
Pending(fn, x) == [fn |-> fn, arg |-> x, done |-> FALSE]

\* The formatter's functions called directly, once: clean_markdown and
\* format_lists on any text of up to MaxChars characters, the two heading
\* functions on any document of one to MaxLines lines, format_table on any
\* table of up to MaxRows rows and MaxCols columns of Cells.
InitFormatter ==
    /\ InitService
    /\ \/ \E n \in 0..MaxChars : \E x \in [1..n -> CleanAlphabet] :
              call = Pending("clean_markdown", x)
       \/ \E n \in 0..MaxChars : \E x \in [1..n -> ListAlphabet] :
              call = Pending("format_lists", x)
       \/ \E n \in 1..MaxLines : \E x \in [1..n -> Lines] :
              call = Pending("fix_heading_hierarchy", x)
       \/ \E n \in 1..MaxLines : \E x \in [1..n -> Lines] :
              call = Pending("add_table_of_contents", x)
       \/ \E r \in 1..MaxRows : \E c \in 1..MaxCols :
              \E x \in [1..r -> [1..c -> Cells]] :
                  call = Pending("format_table", x)

NextFormatter ==
    \/ CleanMarkdown
    \/ FormatLists
    \/ FixHeadingHierarchy
    \/ AddTableOfContents
    \/ FormatTable

SpecFormatter == InitFormatter /\ [][NextFormatter]_vars

\* C18: clean_markdown and format_lists are idempotent: applied to their own
\* result they return it unchanged.
C18_Idempotent ==
    /\ Returned("clean_markdown") => clean_markdown(call.out) = call.out
    /\ Returned("format_lists") => format_lists(call.out) = call.out

\* C19: fix_heading_hierarchy leaves every line that is not a heading as it
\* is, never raises a heading's level, and leaves every heading at most one
\* level below the heading before it.
HeadingsBefore(lines, i) == {k \in 1..(i - 1) : IsHeading(lines[k])}

C19_HeadingsClamped ==
    Returned("fix_heading_hierarchy") =>
        LET in == call.arg
            out == call.out
        IN  /\ Len(out) = Len(in)
            /\ \A i \in 1..Len(in) :
                  IF ~IsHeading(in[i]) THEN out[i] = in[i]
                  ELSE /\ IsHeading(out[i])
                       /\ out[i].hashes <= in[i].hashes
                       /\ HeadingsBefore(in, i) # {} =>
                              out[i].hashes <= out[Max(HeadingsBefore(in, i))].hashes + 1

\* C19 witness: a level-4 heading right after a level-1 heading came out at
\* level 2, with a line of text between them untouched
C19_Witness ==
    /\ Returned("fix_heading_hierarchy")
    /\ Len(call.arg) = 3
    /\ call.arg[1] = [hashes |-> 1, gap |-> 1]
    /\ call.arg[2] = [hashes |-> 0, gap |-> 0]
    /\ call.arg[3] = [hashes |-> 4, gap |-> 1]
    /\ call.out[3] = [hashes |-> 2, gap |-> 1]
    /\ call.out[2] = call.arg[2]

\* C20: add_table_of_contents puts a table of contents in front of the
\* content exactly when the content has more than two headings of level
\* <= 3, and the content itself comes back unmodified.
ListedHeadings(lines) ==
    {i \in 1..Len(lines) : lines[i].hashes \in 1..3 /\ lines[i].gap >= 1}

C20_TocGate ==
    Returned("add_table_of_contents") =>
        LET in == call.arg
            out == call.out
        IN  IF Cardinality(ListedHeadings(in)) > 2
            THEN /\ Len(out) > Len(in)
                 /\ SubSeq(out, Len(out) - Len(in) + 1, Len(out)) = in
                 /\ \A k \in 1..(Len(out) - Len(in)) : "toc" \in DOMAIN out[k]
            ELSE out = in

\* C20 witness: three headings of level <= 3 and one of level 4 got a table
\* of contents with three entries
C20_Witness ==
    /\ Returned("add_table_of_contents")
    /\ Len(call.arg) = 4
    /\ Cardinality(ListedHeadings(call.arg)) = 3
    /\ \E i \in 1..4 : call.arg[i] = [hashes |-> 4, gap |-> 1]
    /\ Len(call.out) = 4 + 6

\* line.split('|')
RECURSIVE SplitOn(_, _)
SplitOn(s, ch) ==
    LET hits == {i \in 1..Len(s) : s[i] = ch}
    IN  IF hits = {} THEN <<s>>
        ELSE <<SubSeq(s, 1, Min(hits) - 1)>>
                 \o SplitOn(SubSeq(s, Min(hits) + 1, Len(s)), ch)

\* the cells of one table line: the pieces between its pipes, trimmed
ParseRow(line) ==
    LET pieces == SplitOn(line, "|")
    IN  [k \in 1..(Len(pieces) - 2) |-> StripTrailing(StripLeading(pieces[k + 1]))]

\* the rows read back from a rendered table, the separator line left out
ParseTable(text) ==
    LET lines == SplitLines(text)
        kept  == <<lines[1]>> \o SubSeq(lines, 3, Len(lines))
    IN  [k \in 1..Len(kept) |-> ParseRow(kept[k])]

IsSeparator(line) == Len(line) > 0 /\ \A k \in 1..Len(line) : line[k] \in {"|", "-"}

\* C21: format_table of a rectangular table whose cells hold no pipe, no
\* newline and no leading or trailing whitespace gives the header line, the
\* separator line and the data lines, and splitting every line but the
\* separator on the pipe and trimming gives back the cells of the table.
C21_TableRoundTrip ==
    Returned("format_table") =>
        LET lines == SplitLines(call.out)
        IN  /\ Len(lines) = Len(call.arg) + 1
            /\ IsSeparator(lines[2])
            /\ ParseTable(call.out) = call.arg

C21_Witness ==
    /\ Returned("format_table")
    /\ Len(call.arg) = MaxRows
    /\ Len(call.arg[1]) = MaxCols
    /\ call.arg[1][1] = <<>>
    /\ call.arg[2][1] = <<"a", " ", "b", "c">>
    /\ call.arg[2][2] = <<"-", "-", "-">>

\* C24: the output of clean_markdown holds no run of three or more newlines
\* and no run of two or more spaces, whitespace-only lines and adjacent
\* heading lines in the input included.
C24_NoLongRunsInCleanOutput ==
    Returned("clean_markdown") =>
        \A i \in 1..Len(call.out) :
            /\ RunLen(call.out, i, {NL}) < 3
            /\ RunLen(call.out, i, {" "}) < 2

\* ---- QualityChecker (utils/quality_checker.py) ----------------------------

\* A markdown text is held as its runs of equal characters, each run a
\* character and a length, neighbouring runs of different characters: the
\* checks below count words, newline runs and dot runs, and a text with ten
\* dots in a row is out of reach character by character.
MaxRuns == 4
QualityAlphabet == {".", NL, " ", "a"}
RunLengths == {4, 6, 10, 20, 33}
Runs == [ch : QualityAlphabet, n : RunLengths]
SourceSizes == {0, 1, 100, 10000}

IsText(md) == \A i \in 1..(Len(md) - 1) : md[i].ch # md[i + 1].ch

Whitespace == {" ", NL}

\* len(markdown.encode()), the text being ASCII
RECURSIVE ByteSize(_)
ByteSize(md) == IF md = <<>> THEN 0 ELSE md[1].n + ByteSize(Tail(md))

\* len(markdown.split()): the maximal stretches without whitespace
WordCount(md) ==
    Cardinality({i \in 1..Len(md) :
                    /\ md[i].ch \notin Whitespace
                    /\ (i = 1 \/ md[i - 1].ch \in Whitespace)})

\* markdown.count('\n\n\n'): occurrences that do not overlap, so a run of n
\* newlines holds n // 3 of them
RECURSIVE CountTripleNewlines(_)
CountTripleNewlines(md) ==
    IF md = <<>> THEN 0
    ELSE (IF md[1].ch = NL THEN md[1].n \div 3 ELSE 0) + CountTripleNewlines(Tail(md))

\* the length of the line that starts with run i
RECURSIVE LineLen(_, _)
LineLen(md, i) ==
    IF i > Len(md) \/ md[i].ch = NL THEN 0 ELSE md[i].n + LineLen(md, i + 1)

\* [line for line in markdown.split('\n') if len(line) > 500]
LongLines(md) ==
    Cardinality({i \in 1..Len(md) :
                    /\ md[i].ch # NL
                    /\ (i = 1 \/ md[i - 1].ch = NL)
                    /\ LineLen(md, i) > 500})

\* re.search(r'\.{10,}', markdown)
HasDotRun(md) == \E i \in 1..Len(md) : md[i].ch = "." /\ md[i].n >= 10

OcrIssue == "Excessive repeated characters (possible OCR error)"
WordsIssue == "Very low word count - possible extraction failure"
LinesIssue == "Many excessively long lines - possible formatting issues"
BlankIssue == "Excessive blank lines"

\* QualityChecker.detect_conversion_issues. The texts have no character
\* outside ASCII, no underscore and no pipe, so the encoding check, the
\* underscore half of the repeated-character check and the broken-table
\* check add nothing.
detect_conversion_issues(md) ==
    (IF HasDotRun(md) THEN <<OcrIssue>> ELSE <<>>)
        \o (IF WordCount(md) < 10 THEN <<WordsIssue>> ELSE <<>>)
        \o (IF LongLines(md) > 5 THEN <<LinesIssue>> ELSE <<>>)
        \o (IF CountTripleNewlines(md) > 10 THEN <<BlankIssue>> ELSE <<>>)

\* Scores are held in tenths of a point: 950 is 95.0.

\* QualityChecker.calculate_completeness_score: ratio = markdown_size /
\* source_size against 0.01, 0.05, 0.1, 0.3 and 1.0
calculate_completeness_score(md, source_size) ==
    LET markdown_size == ByteSize(md)
    IN  IF source_size = 0 THEN [score |-> 0, assessment |-> "Source file is empty"]
        ELSE IF 100 * markdown_size < source_size
            THEN [score |-> 100, assessment |-> "Very poor extraction"]
        ELSE IF 20 * markdown_size < source_size
            THEN [score |-> 300, assessment |-> "Poor extraction"]
        ELSE IF 10 * markdown_size < source_size
            THEN [score |-> 500, assessment |-> "Partial extraction"]
        ELSE IF 10 * markdown_size < 3 * source_size
            THEN [score |-> 700, assessment |-> "Good extraction"]
        ELSE IF markdown_size < source_size
            THEN [score |-> 850, assessment |-> "Very good extraction"]
        ELSE [score |-> 950, assessment |-> "Excellent extraction"]

\* QualityChecker.calculate_accuracy_score(markdown, {'min_words': expected}):
\* min(100, word_count / expected * 100), and 0.0 for empty markdown
calculate_accuracy_score(md, expected) ==
    IF md = <<>> THEN 0
    ELSE IF expected > 0 THEN Min({1000, (WordCount(md) * 1000) \div expected})
    ELSE IF WordCount(md) < 10 THEN 0
    ELSE IF WordCount(md) < 100 THEN 500
    ELSE 750

\* QualityChecker.generate_quality_report
generate_quality_report(md, source_size) ==
    LET completeness == calculate_completeness_score(md, source_size)
        accuracy_score == calculate_accuracy_score(md, 100)
    IN  [overall_score |-> (completeness.score + accuracy_score) \div 2,
         completeness_score |-> completeness.score,
         completeness_assessment |-> completeness.assessment,
         accuracy_score |-> accuracy_score,
         detected_issues |-> detect_conversion_issues(md),
         word_count |-> WordCount(md),
         character_count |-> ByteSize(md)]

GenerateQualityReport ==
    /\ call.fn = "generate_quality_report"
    /\ ~call.done
    /\ call' = [fn |-> call.fn, arg |-> call.arg, done |-> TRUE,
                out |-> generate_quality_report(call.arg.markdown, call.arg.source_size)]
    /\ UNCHANGED <<active_connections, document_subscribers, conversion_status,
                   sockets, received, emitted, jobs, running, waiting, got, ops,
                   audience, unsubscribed, upload_dir>>

DetectConversionIssues ==
    /\ call.fn = "detect_conversion_issues"
    /\ ~call.done
    /\ call' = [fn |-> call.fn, arg |-> call.arg, done |-> TRUE,
                out |-> detect_conversion_issues(call.arg)]
    /\ UNCHANGED <<active_connections, document_subscribers, conversion_status,
                   sockets, received, emitted, jobs, running, waiting, got, ops,
                   audience, unsubscribed, upload_dir>>

\* The quality checker's functions called directly, once, on any text of up
\* to MaxRuns runs and, for the report, any of the source sizes.
InitQuality ==
    /\ InitService
    /\ \E n \in 0..MaxRuns : \E md \in [1..n -> Runs] :
          /\ IsText(md)
          /\ \/ call = Pending("detect_conversion_issues", md)
             \/ \E s \in SourceSizes :
                   call = Pending("generate_quality_report",
                                  [markdown |-> md, source_size |-> s])

NextQuality ==
    \/ GenerateQualityReport
    \/ DetectConversionIssues

SpecQuality == InitQuality /\ [][NextQuality]_vars

\* C22: the completeness, accuracy and overall scores of
\* generate_quality_report lie in [0, 100] for every markdown and every
\* source size, and for empty markdown the completeness score and the
\* accuracy score are both 0.
C22_ScoresBounded ==
    Returned("generate_quality_report") =>
        /\ call.out.completeness_score \in 0..1000
        /\ call.out.accuracy_score \in 0..1000
        /\ call.out.overall_score \in 0..1000
        /\ call.arg.markdown = <<>> =>
              /\ call.out.completeness_score = 0
              /\ call.out.accuracy_score = 0

\* C23: for markdown with a run of ten or more dots and a run of six
\* newlines, detect_conversion_issues reports both the repeated-character
\* warning and the excessive-blank-lines warning.
C23_DotsAndBlankLinesReported ==
    (/\ Returned("detect_conversion_issues")
     /\ HasDotRun(call.arg)
     /\ \E i \in 1..Len(call.arg) : call.arg[i].ch = NL /\ call.arg[i].n >= 6) =>
        /\ OcrIssue \in Range(call.out)
        /\ BlankIssue \in Range(call.out)

====
